---- MODULE Spec2Model ----
(***************************************************************************)
(* github-dispatcher: the webhook dispatch pipeline of main.go.            *)
(*                                                                         *)
(* main() loads the filter rules, pings the store, subscribes to the       *)
(* channel and then loops over a select on the message channel and the     *)
(* signal channel.  Each message is handed to handleWebhookMessage, which  *)
(* decodes it, looks the rule up with findMatchingRule, serialises the     *)
(* matched rule and RPUSHes it to the pipeline queue.                      *)
(*                                                                         *)
(* Texts (payloads, queue items, the rule file) are modelled by their JSON *)
(* syntax tree: a value is a record with a type tag t, a string s and its   *)
(* children m in text order (the <<key, value>> members of an object, the  *)
(* elements of an array).  Text that is not JSON has the tag "invalid".    *)
(***************************************************************************)
EXTENDS Naturals, Sequences, FiniteSets

VARIABLES
    pc,          \* position of main(): start, loadRules, ping, subscribe,
                 \*   select, handle, rpush, shutdown, stopped, fatal
    configFile,  \* content of the rule file ("unreadable" or its text)
    rules,       \* main's rules slice
    subscribed,  \* the pubsub handle is open
    ch,          \* messages delivered to pubsub.Channel(), not yet taken
    sigChan,     \* number of signals held in sigChan (capacity 1)
    queue,       \* the store's list named by PipelineQueueName
    msg,         \* msg.Payload of the select case being handled
    rule,        \* handleWebhookMessage's rule: index into rules, 0 is nil
    ruleJSON,    \* handleWebhookMessage's ruleJSON
    err,         \* error returned by the last handleWebhookMessage call
    received,    \* history: payloads taken from ch, in order
    lookups,     \* history: findMatchingRule calls [idx, repo, branch, rule]
    pushed,      \* history: RPush calls [idx, item, ok, cause], in order
    returned,    \* history: error returned for each payload, in order
    env,         \* the process environment: variable name -> value, "" unset
    config,      \* main's config
    currentLogLevel,  \* the package variable currentLogLevel
    logged,      \* history: entries written by the log package, in order
    consumed,    \* history: items a consumer took from the queue's head
    signalled    \* history: a signal was sent after signal.Notify

vars == <<pc, configFile, rules, subscribed, ch, sigChan, queue, msg, rule,
          ruleJSON, err, received, lookups, pushed, returned, env, config,
          currentLogLevel, logged, consumed, signalled>>

----------------------------------------------------------------------------
(* Bounds of the model *)

MaxRules == 2      \* longest rule set drawn in Init
MaxMsgs == 2       \* payloads published over a behaviour

----------------------------------------------------------------------------
(* JSON syntax trees *)

JStr(x) == [t |-> "str", s |-> x, m |-> <<>>]
JArr(elems) == [t |-> "arr", s |-> "", m |-> elems]
JObj(members) == [t |-> "obj", s |-> "", m |-> members]
JNull == [t |-> "null", s |-> "", m |-> <<>>]
JNum == [t |-> "num", s |-> "", m |-> <<>>]
NotJSON == [t |-> "invalid", s |-> "", m |-> <<>>]

----------------------------------------------------------------------------
(* Go values *)

\* A []string: the nil slice and the empty slice differ in their JSON.
NilSlice == [nil |-> TRUE, elems |-> <<>>]
Slice(xs) == [nil |-> FALSE, elems |-> xs]

\* The zero FilterRule.
ZeroRule == [Repo |-> "", Branch |-> "", Type |-> "", Dir |-> "",
             Commands |-> NilSlice]

\* The zero GitHubPushEvent.
ZeroEvent == [Ref |-> "", FullName |-> ""]

\* error values: nil, a json error, or fmt.Errorf(msg + ": %w", cause).
NilErr == [msg |-> "", cause |-> ""]
Errorf(m, cause) == [msg |-> m, cause |-> cause]

----------------------------------------------------------------------------
(* encoding/json, as far as FilterRule and GitHubPushEvent use it *)

\* json.Marshal of a []string.
MarshalSlice(c) ==
    IF c.nil THEN JNull
    ELSE JArr([i \in 1..Len(c.elems) |-> JStr(c.elems[i])])

\* Mutant of MarshalRule: Commands is not serialised (as for a field
\* without its json tag exported).
MarshalRule_NoCommands(r) ==
    JObj(<< <<"repo", JStr(r.Repo)>>,
            <<"branch", JStr(r.Branch)>>,
            <<"type", JStr(r.Type)>>,
            <<"dir", JStr(r.Dir)>> >>)

\* Mutant of MarshalRule: the commands are written last first.
MarshalRule_Reversed(r) ==
    JObj(<< <<"repo", JStr(r.Repo)>>,
            <<"branch", JStr(r.Branch)>>,
            <<"type", JStr(r.Type)>>,
            <<"dir", JStr(r.Dir)>>,
            <<"commands",
              IF r.Commands.nil THEN JNull
              ELSE JArr([i \in 1..Len(r.Commands.elems) |->
                            JStr(r.Commands.elems[Len(r.Commands.elems) + 1 - i])])>> >>)

\* json.Marshal(rule): the struct's fields in declaration order under their
\* json tags; it cannot fail for strings and string slices.
MarshalRule(r) ==
    JObj(<< <<"repo", JStr(r.Repo)>>,
            <<"branch", JStr(r.Branch)>>,
            <<"type", JStr(r.Type)>>,
            <<"dir", JStr(r.Dir)>>,
            <<"commands", MarshalSlice(r.Commands)>> >>)

\* Decoding one member into a string field: a string sets it, null leaves
\* it, anything else is an UnmarshalTypeError and leaves it.
SetString(old, v) == IF v.t = "str" THEN v.s ELSE old
StringErr(v) == IF v.t \in {"str", "null"} THEN "" ELSE "UnmarshalTypeError"

\* The first error is the one json.Unmarshal reports.
FirstErr(e1, e2) == IF e1 # "" THEN e1 ELSE e2

\* Members are decoded in text order; a repeated key overwrites.
RECURSIVE DecodeRepository(_, _, _)
DecodeRepository(members, i, acc) ==
    IF i > Len(members) THEN acc
    ELSE LET k == members[i][1]
             v == members[i][2]
         IN IF k = "full_name"
            THEN DecodeRepository(members, i + 1,
                    [ev |-> [acc.ev EXCEPT !.FullName = SetString(@, v)],
                     err |-> FirstErr(acc.err, StringErr(v))])
            ELSE DecodeRepository(members, i + 1, acc)

RECURSIVE DecodeEventMembers(_, _, _)
DecodeEventMembers(members, i, acc) ==
    IF i > Len(members) THEN acc
    ELSE LET k == members[i][1]
             v == members[i][2]
         IN IF k = "ref"
            THEN DecodeEventMembers(members, i + 1,
                    [ev |-> [acc.ev EXCEPT !.Ref = SetString(@, v)],
                     err |-> FirstErr(acc.err, StringErr(v))])
            ELSE IF k = "repository"
            THEN DecodeEventMembers(members, i + 1,
                    IF v.t = "obj" THEN DecodeRepository(v.m, 1, acc)
                    ELSE IF v.t = "null" THEN acc
                    ELSE [acc EXCEPT !.err = FirstErr(@, "UnmarshalTypeError")])
            ELSE DecodeEventMembers(members, i + 1, acc)

\* Mutant of UnmarshalEvent: a syntax error is not reported.
UnmarshalEvent_NoSyntaxError(text) ==
    IF text.t \in {"invalid", "null"} THEN [ev |-> ZeroEvent, err |-> ""]
    ELSE IF text.t # "obj" THEN [ev |-> ZeroEvent, err |-> "UnmarshalTypeError"]
    ELSE DecodeEventMembers(text.m, 1, [ev |-> ZeroEvent, err |-> ""])

\* json.Unmarshal([]byte(payload), &event) with event the zero value.
UnmarshalEvent(text) ==
    IF text.t = "invalid" THEN [ev |-> ZeroEvent, err |-> "SyntaxError"]
    ELSE IF text.t = "null" THEN [ev |-> ZeroEvent, err |-> ""]
    ELSE IF text.t # "obj" THEN [ev |-> ZeroEvent, err |-> "UnmarshalTypeError"]
    ELSE DecodeEventMembers(text.m, 1, [ev |-> ZeroEvent, err |-> ""])

\* Decoding one member into a []string field: an array sets it element by
\* element, null makes it nil, anything else is an UnmarshalTypeError.
SetSlice(old, v) ==
    IF v.t = "arr" THEN Slice([i \in 1..Len(v.m) |-> SetString("", v.m[i])])
    ELSE IF v.t = "null" THEN NilSlice
    ELSE old
SliceErr(v) ==
    IF v.t = "null" THEN ""
    ELSE IF v.t = "arr"
         THEN IF \E i \in 1..Len(v.m) : StringErr(v.m[i]) # ""
              THEN "UnmarshalTypeError" ELSE ""
    ELSE "UnmarshalTypeError"

RECURSIVE DecodeRuleMembers(_, _, _)
DecodeRuleMembers(members, i, acc) ==
    IF i > Len(members) THEN acc
    ELSE LET k == members[i][1]
             v == members[i][2]
             r == acc.rule
             r2 == IF k = "repo" THEN [r EXCEPT !.Repo = SetString(@, v)]
                   ELSE IF k = "branch" THEN [r EXCEPT !.Branch = SetString(@, v)]
                   ELSE IF k = "type" THEN [r EXCEPT !.Type = SetString(@, v)]
                   ELSE IF k = "dir" THEN [r EXCEPT !.Dir = SetString(@, v)]
                   ELSE IF k = "commands"
                        THEN [r EXCEPT !.Commands = SetSlice(@, v)]
                   ELSE r
             e == IF k \in {"repo", "branch", "type", "dir"} THEN StringErr(v)
                  ELSE IF k = "commands" THEN SliceErr(v)
                  ELSE ""
         IN DecodeRuleMembers(members, i + 1,
                [rule |-> r2, err |-> FirstErr(acc.err, e)])

\* json.Unmarshal(text, &rule) with rule the zero FilterRule.
UnmarshalRule(text) ==
    IF text.t = "invalid" THEN [rule |-> ZeroRule, err |-> "SyntaxError"]
    ELSE IF text.t = "null" THEN [rule |-> ZeroRule, err |-> ""]
    ELSE IF text.t # "obj" THEN [rule |-> ZeroRule, err |-> "UnmarshalTypeError"]
    ELSE DecodeRuleMembers(text.m, 1, [rule |-> ZeroRule, err |-> ""])

----------------------------------------------------------------------------
(* The values the model draws from *)

RuleMain == [Repo |-> "o/r", Branch |-> "refs/heads/main",
             Type |-> "git-webhook", Dir |-> "",
             Commands |-> Slice(<<"make build", "make test">>)]
\* Same (repo, branch) as RuleMain, other dir and commands.
RuleMainAgain == [Repo |-> "o/r", Branch |-> "refs/heads/main",
                  Type |-> "git-webhook", Dir |-> "app",
                  Commands |-> Slice(<<"make test">>)]
\* A rule-file entry {} : every field is its zero value.
RuleEmpty == ZeroRule

RuleUniverse == {RuleMain, RuleMainAgain, RuleEmpty}

RuleSets == UNION {[1..n -> RuleUniverse] : n \in 0..MaxRules}

\* A push payload as the webhook sends it: ref, repository.full_name and
\* fields the service does not read.
PushPayload(ref, fullName) ==
    JObj(<< <<"ref", JStr(ref)>>,
            <<"after", JStr("4f2a")>>,
            <<"repository", JObj(<< <<"id", JNum>>,
                                    <<"full_name", JStr(fullName)>> >>)>> >>)

Payloads ==
    { NotJSON,                                          \* not a json
      JObj(<<>>),                                       \* {}
      JObj(<< <<"ref", JStr("refs/heads/main")>> >>),   \* no repository
      JObj(<< <<"ref", JNum>>,                          \* "ref": 5
              <<"repository", JObj(<< <<"full_name", JStr("o/r")>> >>)>> >>),
      PushPayload("refs/heads/main", "o/r"),
      PushPayload("main", "o/r"),
      PushPayload("refs/heads/main", "O/R") }

\* The rule file as written on disk: zero-valued dir and nil commands are
\* left out, as in the README's config.json.
RuleText(r) ==
    JObj(<< <<"repo", JStr(r.Repo)>>, <<"branch", JStr(r.Branch)>>,
            <<"type", JStr(r.Type)>> >>
         \o (IF r.Dir = "" THEN <<>> ELSE << <<"dir", JStr(r.Dir)>> >>)
         \o (IF r.Commands.nil THEN <<>>
             ELSE << <<"commands", MarshalSlice(r.Commands)>> >>))

Unreadable == [readable |-> FALSE, text |-> NotJSON]
FileOf(text) == [readable |-> TRUE, text |-> text]

ConfigFiles ==
    {Unreadable, FileOf(NotJSON)}
    \cup {FileOf(JArr([i \in 1..Len(rs) |-> RuleText(rs[i])])) : rs \in RuleSets}

\* Errors the store client returns from a failed round trip.
RedisErrors == {"connection refused", "i/o timeout"}

NoMsg == JNull
NoText == JNull

----------------------------------------------------------------------------
(* main.go *)

\* The environment variables loadConfig reads.
EnvKeys == {"REDIS_HOST", "REDIS_PORT", "REDIS_CHANNEL", "CONFIG_FILE_PATH",
            "PIPELINE_QUEUE_NAME", "LOG_LEVEL"}

\* No variable is set.
UnsetEnv == [k \in EnvKeys |-> ""]

\* getEnv(key, defaultValue): os.Getenv gives "" for an unset variable.
getEnv(e, key, defaultValue) == IF e[key] # "" THEN e[key] ELSE defaultValue

\* loadConfig()
loadConfig(e) ==
    [RedisHost |-> getEnv(e, "REDIS_HOST", "localhost"),
     RedisPort |-> getEnv(e, "REDIS_PORT", "6379"),
     RedisChannel |-> getEnv(e, "REDIS_CHANNEL", "github-webhook-push"),
     ConfigFilePath |-> getEnv(e, "CONFIG_FILE_PATH", "config.json"),
     PipelineQueueName |-> getEnv(e, "PIPELINE_QUEUE_NAME", "pipeline"),
     LogLevel |-> getEnv(e, "LOG_LEVEL", "INFO")]

\* The LogLevel constants (iota).
LogLevelDebug == 0
LogLevelInfo == 1
LogLevelWarn == 2
LogLevelError == 3

\* Mutant of parseLogLevel: the spelling's case does not matter.
parseLogLevel_AnyCase(level) ==
    CASE level \in {"DEBUG", "debug"} -> LogLevelDebug
      [] level \in {"INFO", "info"} -> LogLevelInfo
      [] level \in {"WARN", "WARNING", "warn", "warning"} -> LogLevelWarn
      [] level \in {"ERROR", "error"} -> LogLevelError
      [] OTHER -> LogLevelInfo

\* parseLogLevel(level)
parseLogLevel(level) ==
    CASE level = "DEBUG" -> LogLevelDebug
      [] level = "INFO" -> LogLevelInfo
      [] level \in {"WARN", "WARNING"} -> LogLevelWarn
      [] level = "ERROR" -> LogLevelError
      [] OTHER -> LogLevelInfo

\* Mutant of Enabled: an entry is written only above the configured level.
Enabled_Above(cur, lvl) == cur < lvl

\* The guard of logDebug, logInfo, logWarn and logError: an entry of level
\* lvl is written when currentLogLevel <= lvl.
Enabled(cur, lvl) == cur <= lvl

\* logDebug, logInfo, logError: the log lg after the call made at level cur
\* while payload number n is handled (0 outside a dispatch).
logDebug(lg, cur, text, n) ==
    IF Enabled(cur, LogLevelDebug)
    THEN Append(lg, [level |-> "DEBUG", text |-> text, idx |-> n])
    ELSE lg
logInfo(lg, cur, text, n) ==
    IF Enabled(cur, LogLevelInfo)
    THEN Append(lg, [level |-> "INFO", text |-> text, idx |-> n])
    ELSE lg
logError(lg, cur, text, n) ==
    IF Enabled(cur, LogLevelError)
    THEN Append(lg, [level |-> "ERROR", text |-> text, idx |-> n])
    ELSE lg

\* log.Fatalf writes whatever the level (and ends the process).
Fatalf(lg, text) == Append(lg, [level |-> "FATAL", text |-> text, idx |-> 0])

\* loadFilterRules(filePath): ([]FilterRule, error)
RECURSIVE UnmarshalRules(_, _, _)
UnmarshalRules(elems, i, acc) ==
    IF i > Len(elems) THEN acc
    ELSE LET d == IF elems[i].t \in {"obj", "null"}
                  THEN UnmarshalRule(elems[i])
                  ELSE [rule |-> ZeroRule, err |-> "UnmarshalTypeError"]
         IN UnmarshalRules(elems, i + 1,
                [rules |-> Append(acc.rules, d.rule),
                 err |-> FirstErr(acc.err, d.err)])

\* Mutant of loadFilterRules: a file that does not parse gives no rules and
\* no error.
loadFilterRules_IgnoreParseError(file) ==
    IF ~file.readable
    THEN [rules |-> <<>>, err |-> Errorf("failed to read config file", "ReadFile")]
    ELSE LET d == IF file.text.t \in {"invalid", "null"} \/ file.text.t # "arr"
                  THEN [rules |-> <<>>, err |-> ""]
                  ELSE UnmarshalRules(file.text.m, 1, [rules |-> <<>>, err |-> ""])
         IN IF d.err # ""
            THEN [rules |-> <<>>, err |-> NilErr]
            ELSE [rules |-> d.rules, err |-> NilErr]

loadFilterRules(file) ==
    IF ~file.readable
    THEN [rules |-> <<>>, err |-> Errorf("failed to read config file", "ReadFile")]
    ELSE LET d == IF file.text.t = "invalid"
                  THEN [rules |-> <<>>, err |-> "SyntaxError"]
                  ELSE IF file.text.t = "null" THEN [rules |-> <<>>, err |-> ""]
                  ELSE IF file.text.t # "arr"
                  THEN [rules |-> <<>>, err |-> "UnmarshalTypeError"]
                  ELSE UnmarshalRules(file.text.m, 1, [rules |-> <<>>, err |-> ""])
         IN IF d.err # ""
            THEN [rules |-> <<>>, err |-> Errorf("failed to parse config file", d.err)]
            ELSE [rules |-> d.rules, err |-> NilErr]

\* Mutant of findMatchingRule: the scan keeps the last match.
RECURSIVE findLastFrom(_, _, _, _)
findLastFrom(rs, repo, branch, i) ==
    IF i < 1 THEN 0
    ELSE IF rs[i].Repo = repo /\ rs[i].Branch = branch THEN i
    ELSE findLastFrom(rs, repo, branch, i - 1)

findMatchingRule_Last(rs, repo, branch) == findLastFrom(rs, repo, branch, Len(rs))

\* Mutant of findMatchingRule: the repo is compared without regard to
\* letter case (strings.EqualFold).
ToLower(x) == IF x = "O/R" THEN "o/r" ELSE x

RECURSIVE findFoldFrom(_, _, _, _)
findFoldFrom(rs, repo, branch, i) ==
    IF i > Len(rs) THEN 0
    ELSE IF ToLower(rs[i].Repo) = ToLower(repo) /\ rs[i].Branch = branch THEN i
    ELSE findFoldFrom(rs, repo, branch, i + 1)

findMatchingRule_EqualFold(rs, repo, branch) == findFoldFrom(rs, repo, branch, 1)

\* findMatchingRule(rules, repo, branch): the loop over the indices; the
\* returned pointer &rules[i] is the index i, nil is 0.
RECURSIVE findFrom(_, _, _, _)
findFrom(rs, repo, branch, i) ==
    IF i > Len(rs) THEN 0
    ELSE IF rs[i].Repo = repo /\ rs[i].Branch = branch THEN i
    ELSE findFrom(rs, repo, branch, i + 1)

findMatchingRule(rs, repo, branch) == findFrom(rs, repo, branch, 1)

\* Mutant of Dispatch: the nil check on rule is missing, and the nil rule
\* is serialised and pushed.
Dispatch_NoNilCheck(rs, payload) ==
    LET d == UnmarshalEvent(payload)
        r == findMatchingRule(rs, d.ev.FullName, d.ev.Ref)
    IN IF d.err # ""
       THEN [decoded |-> FALSE, ev |-> d.ev, push |-> FALSE, rule |-> 0,
             ruleJSON |-> NoText,
             err |-> Errorf("failed to parse webhook payload", d.err)]
       ELSE [decoded |-> TRUE, ev |-> d.ev, push |-> TRUE, rule |-> r,
             ruleJSON |-> IF r = 0 THEN JNull ELSE MarshalRule(rs[r]),
             err |-> NilErr]

\* handleWebhookMessage up to the RPush call: the error it returns at once,
\* or the rule it found and the text it is about to push.
Dispatch(rs, payload) ==
    LET d == UnmarshalEvent(payload)
        r == findMatchingRule(rs, d.ev.FullName, d.ev.Ref)
    IN IF d.err # ""
       THEN [decoded |-> FALSE, ev |-> d.ev, push |-> FALSE, rule |-> 0,
             ruleJSON |-> NoText,
             err |-> Errorf("failed to parse webhook payload", d.err)]
       ELSE IF r = 0
       THEN [decoded |-> TRUE, ev |-> d.ev, push |-> FALSE, rule |-> 0,
             ruleJSON |-> NoText, err |-> NilErr]
       ELSE [decoded |-> TRUE, ev |-> d.ev, push |-> TRUE, rule |-> r,
             ruleJSON |-> MarshalRule(rs[r]), err |-> NilErr]

\* Mutant of RPush: the item goes to the head of the list (LPUSH).
RPush_Head(list, item) == <<item>> \o list

\* Mutant of RPush: the item replaces the list.
RPush_Replace(list, item) == <<item>>

\* The store's RPUSH: the item goes to the tail of the list.
RPush(list, item) == Append(list, item)

\* Mutant of PushError: the failure is swallowed.
PushError_Swallowed(cause) == NilErr

\* The error handleWebhookMessage makes of a failed RPush.
PushError(cause) == Errorf("failed to push to Redis queue", cause)

\* Mutant of AfterHandle: an error ends the process (log.Fatalf for
\* logError).
AfterHandle_FatalOnError(e) == IF e = NilErr THEN "select" ELSE "fatal"

\* Where the for loop goes once handleWebhookMessage has returned e: the
\* error is logged and the select is entered again.
AfterHandle(e) == "select"

\* The zero Config.
ZeroConfig == [RedisHost |-> "", RedisPort |-> "", RedisChannel |-> "",
               ConfigFilePath |-> "", PipelineQueueName |-> "",
               LogLevel |-> ""]

\* What every specification starts from: main has not run, the package
\* variable currentLogLevel has its initial value, nothing is logged.
Start ==
    /\ pc = "start"
    /\ config = ZeroConfig
    /\ currentLogLevel = LogLevelInfo
    /\ rules = <<>>
    /\ subscribed = FALSE
    /\ ch = <<>>
    /\ sigChan = 0
    /\ queue = <<>>
    /\ msg = NoMsg
    /\ rule = 0
    /\ ruleJSON = NoText
    /\ err = NilErr
    /\ received = <<>>
    /\ lookups = <<>>
    /\ pushed = <<>>
    /\ returned = <<>>
    /\ logged = <<>>
    /\ consumed = <<>>
    /\ signalled = FALSE

\* The service started with no variable set, over any rule file.
Init ==
    /\ Start
    /\ env = UnsetEnv
    /\ configFile \in ConfigFiles

\* main: config := loadConfig(); currentLogLevel = parseLogLevel(...); the
\* two start-up entries
LoadConfig ==
    /\ pc = "start"
    /\ config' = loadConfig(env)
    /\ currentLogLevel' = parseLogLevel(loadConfig(env).LogLevel)
    /\ logged' = logInfo(logInfo(logged, parseLogLevel(loadConfig(env).LogLevel),
                                 "Starting GitHub Dispatcher Service...", 0),
                         parseLogLevel(loadConfig(env).LogLevel),
                         "Configuration", 0)
    /\ pc' = "loadRules"
    /\ UNCHANGED <<env, configFile, rules, subscribed, ch, sigChan, queue,
                   msg, rule, ruleJSON, err, received, lookups, pushed,
                   returned, consumed, signalled>>

\* main: rules, err := loadFilterRules(config.ConfigFilePath), success
LoadRules ==
    /\ pc = "loadRules"
    /\ loadFilterRules(configFile).err = NilErr
    /\ rules' = loadFilterRules(configFile).rules
    /\ logged' = logInfo(logged, currentLogLevel, "Loaded filter rule(s)", 0)
    /\ pc' = "ping"
    /\ UNCHANGED <<env, config, currentLogLevel, configFile, subscribed, ch,
                   sigChan, queue, msg, rule, ruleJSON, err, received,
                   lookups, pushed, returned, consumed, signalled>>

\* main: loadFilterRules failed, log.Fatalf
LoadRulesFatal ==
    /\ pc = "loadRules"
    /\ loadFilterRules(configFile).err # NilErr
    /\ logged' = Fatalf(logged, "Failed to load filter rules")
    /\ pc' = "fatal"
    /\ UNCHANGED <<env, config, currentLogLevel, configFile, rules,
                   subscribed, ch, sigChan, queue, msg, rule, ruleJSON, err,
                   received, lookups, pushed, returned, consumed, signalled>>

\* main: rdb.Ping succeeded
Ping ==
    /\ pc = "ping"
    /\ logged' = logInfo(logged, currentLogLevel,
                         "Successfully connected to Redis", 0)
    /\ pc' = "subscribe"
    /\ UNCHANGED <<env, config, currentLogLevel, configFile, rules,
                   subscribed, ch, sigChan, queue, msg, rule, ruleJSON, err,
                   received, lookups, pushed, returned, consumed, signalled>>

\* Mutant of PingFatal: the channel is subscribed before the connection is
\* tested.
PingFatal_Subscribed ==
    /\ pc = "ping"
    /\ subscribed' = TRUE
    /\ logged' = Fatalf(logged, "Failed to connect to Redis")
    /\ pc' = "fatal"
    /\ UNCHANGED <<env, config, currentLogLevel, configFile, rules,
                   ch, sigChan, queue, msg, rule, ruleJSON, err,
                   received, lookups, pushed, returned, consumed, signalled>>

\* main: rdb.Ping failed, log.Fatalf
PingFatal ==
    /\ pc = "ping"
    /\ logged' = Fatalf(logged, "Failed to connect to Redis")
    /\ pc' = "fatal"
    /\ UNCHANGED <<env, config, currentLogLevel, configFile, rules,
                   subscribed, ch, sigChan, queue, msg, rule, ruleJSON, err,
                   received, lookups, pushed, returned, consumed, signalled>>

\* main: rdb.Subscribe, signal.Notify, pubsub.Channel; the loop is entered
Subscribe ==
    /\ pc = "subscribe"
    /\ subscribed' = TRUE
    /\ logged' = logInfo(logInfo(logged, currentLogLevel,
                                 "Subscribed to channel", 0),
                         currentLogLevel, "Waiting for messages...", 0)
    /\ pc' = "select"
    /\ UNCHANGED <<env, config, currentLogLevel, configFile, rules, ch,
                   sigChan, queue, msg, rule, ruleJSON, err, received,
                   lookups, pushed, returned, consumed, signalled>>

\* The channel's publisher: a payload reaches the open subscription.
Publish ==
    /\ subscribed
    /\ Len(received) + Len(ch) < MaxMsgs
    /\ \E p \in Payloads : ch' = Append(ch, p)
    /\ UNCHANGED <<pc, env, config, currentLogLevel, configFile, rules,
                   subscribed, sigChan, queue, msg, rule, ruleJSON, err,
                   received, lookups, pushed, returned, logged, consumed, signalled>>

\* Mutant of Signal: sigChan has no buffer, and a signal sent while the
\* loop is not at its select is dropped.
Signal_Unbuffered ==
    /\ pc \in {"select", "handle", "rpush", "shutdown"}
    /\ sigChan' = IF pc = "select" THEN 1 ELSE sigChan
    /\ signalled' = TRUE
    /\ UNCHANGED <<pc, env, config, currentLogLevel, configFile, rules,
                   subscribed, ch, queue, msg, rule, ruleJSON, err, received,
                   lookups, pushed, returned, logged, consumed>>

\* SIGINT or SIGTERM after signal.Notify: held if sigChan has room,
\* dropped otherwise.
Signal ==
    /\ pc \in {"select", "handle", "rpush", "shutdown"}
    /\ sigChan' = 1
    /\ signalled' = TRUE
    /\ UNCHANGED <<pc, env, config, currentLogLevel, configFile, rules,
                   subscribed, ch, queue, msg, rule, ruleJSON, err, received,
                   lookups, pushed, returned, logged, consumed>>

\* Mutant of RecvMsgStep: the next payload is taken while the previous one
\* is still being handled.
RecvMsgStep_Eager ==
    /\ pc \in {"select", "handle"}
    /\ ch # <<>>
    /\ msg' = Head(ch)
    /\ ch' = Tail(ch)
    /\ pc' = "handle"
    /\ UNCHANGED <<env, config, currentLogLevel, configFile, rules,
                   subscribed, sigChan, queue, rule, ruleJSON, err>>

\* select: case msg := <-ch, on the program's variables
RecvMsgStep ==
    /\ pc = "select"
    /\ ch # <<>>
    /\ msg' = Head(ch)
    /\ ch' = Tail(ch)
    /\ pc' = "handle"
    /\ UNCHANGED <<env, config, currentLogLevel, configFile, rules,
                   subscribed, sigChan, queue, rule, ruleJSON, err>>

\* select: case msg := <-ch
RecvMsg ==
    /\ RecvMsgStep
    /\ received' = Append(received, Head(ch))
    /\ logged' = logDebug(logged, currentLogLevel,
                          "Received message from channel", Len(received) + 1)
    /\ UNCHANGED <<lookups, pushed, returned, consumed, signalled>>

\* Mutant of Return: a payload whose handling failed is handled again.
Return_Reprocess(e) ==
    /\ err' = e
    /\ msg' = IF e # NilErr THEN msg ELSE NoMsg
    /\ rule' = 0
    /\ ruleJSON' = NoText
    /\ pc' = IF e # NilErr THEN "handle" ELSE AfterHandle(e)

\* handleWebhookMessage returns e to the loop.
Return(e) ==
    /\ err' = e
    /\ msg' = NoMsg
    /\ rule' = 0
    /\ ruleJSON' = NoText
    /\ pc' = AfterHandle(e)

\* Mutant of LogReturn: the loop reports a returned error at debug level.
LogReturn_AsDebug(lg, cur, e, n) ==
    IF e # NilErr THEN logDebug(lg, cur, "Error handling webhook message", n)
    ELSE lg

\* The loop's entry for a returned error (main.go's logError call).
LogReturn(lg, cur, e, n) ==
    IF e # NilErr THEN logError(lg, cur, "Error handling webhook message", n)
    ELSE lg

\* Mutant of DispatchLog: the two outcomes of the lookup are logged with
\* the same words.
DispatchLog_SameWords(lg, cur, d, n) ==
    IF ~d.decoded THEN lg
    ELSE logDebug(logDebug(lg, cur, "Processing push event", n),
                  cur, "Found matching rule", n)

\* The entries handleWebhookMessage makes up to the RPush call.
DispatchLog(lg, cur, d, n) ==
    IF ~d.decoded THEN lg
    ELSE IF ~d.push
    THEN logDebug(logDebug(lg, cur, "Processing push event", n),
                  cur, "No matching rule found", n)
    ELSE logDebug(logDebug(lg, cur, "Processing push event", n),
                  cur, "Found matching rule", n)

\* handleWebhookMessage: decode, match, serialise, on the program's
\* variables; returns unless it has a rule to push.
HandleStep ==
    /\ pc = "handle"
    /\ LET d == Dispatch(rules, msg)
       IN IF d.push
          THEN /\ rule' = d.rule
               /\ ruleJSON' = d.ruleJSON
               /\ pc' = "rpush"
               /\ UNCHANGED <<msg, err>>
          ELSE Return(d.err)
    /\ UNCHANGED <<env, config, currentLogLevel, configFile, rules,
                   subscribed, ch, sigChan, queue>>

\* handleWebhookMessage: decode, match, serialise; returns unless it has a
\* rule to push.
HandleWebhookMessage ==
    /\ HandleStep
    /\ LET d == Dispatch(rules, msg)
           n == Len(received)
       IN
       /\ lookups' = IF d.decoded
                     THEN Append(lookups, [idx |-> n,
                                           repo |-> d.ev.FullName,
                                           branch |-> d.ev.Ref,
                                           rule |-> d.rule])
                     ELSE lookups
       /\ returned' = IF d.push THEN returned ELSE Append(returned, d.err)
       /\ logged' = IF d.push
                    THEN DispatchLog(logged, currentLogLevel, d, n)
                    ELSE LogReturn(DispatchLog(logged, currentLogLevel, d, n),
                                   currentLogLevel, d.err, n)
    /\ UNCHANGED <<received, pushed, consumed, signalled>>

\* Mutant of RPushOkStep: a rule is used up by its first successful push.
RPushOkStep_ConsumesRule ==
    /\ pc = "rpush"
    /\ queue' = RPush(queue, ruleJSON)
    /\ rules' = [i \in 1..(Len(rules) - 1) |->
                    IF i < rule THEN rules[i] ELSE rules[i + 1]]
    /\ Return(NilErr)
    /\ UNCHANGED <<env, config, currentLogLevel, configFile, subscribed, ch,
                   sigChan>>

\* Mutant of RPushOkStep: an item that is already on the queue is not
\* appended again.
RPushOkStep_Dedup ==
    /\ pc = "rpush"
    /\ queue' = IF \E n \in 1..Len(queue) : queue[n] = ruleJSON
                THEN queue
                ELSE RPush(queue, ruleJSON)
    /\ Return(NilErr)
    /\ UNCHANGED <<env, config, currentLogLevel, configFile, rules,
                   subscribed, ch, sigChan>>

\* handleWebhookMessage: rdb.RPush succeeded, on the program's variables
RPushOkStep ==
    /\ pc = "rpush"
    /\ queue' = RPush(queue, ruleJSON)
    /\ Return(NilErr)
    /\ UNCHANGED <<env, config, currentLogLevel, configFile, rules,
                   subscribed, ch, sigChan>>

\* handleWebhookMessage: rdb.RPush succeeded
RPushOk ==
    /\ RPushOkStep
    /\ pushed' = Append(pushed, [idx |-> Len(received), item |-> ruleJSON,
                                 ok |-> TRUE, cause |-> ""])
    /\ returned' = Append(returned, NilErr)
    /\ logged' = logDebug(logged, currentLogLevel, "Pushed rule to queue",
                          Len(received))
    /\ UNCHANGED <<received, lookups, consumed, signalled>>

\* handleWebhookMessage: rdb.RPush failed with e, on the program's
\* variables
RPushFailStep(e) ==
    /\ pc = "rpush"
    /\ Return(PushError(e))
    /\ UNCHANGED <<env, config, currentLogLevel, configFile, rules,
                   subscribed, ch, sigChan, queue>>

\* Mutant of RPushFail: the failed RPush is tried again and succeeds.
RPushFail_Retried ==
    /\ RPushOkStep
    /\ \E e \in RedisErrors :
          pushed' = pushed \o <<[idx |-> Len(received), item |-> ruleJSON,
                                 ok |-> FALSE, cause |-> e],
                                [idx |-> Len(received), item |-> ruleJSON,
                                 ok |-> TRUE, cause |-> ""]>>
    /\ returned' = Append(returned, NilErr)
    /\ UNCHANGED <<received, lookups, logged, consumed, signalled>>

\* handleWebhookMessage: rdb.RPush failed
RPushFail ==
    \E e \in RedisErrors :
        /\ RPushFailStep(e)
        /\ pushed' = Append(pushed, [idx |-> Len(received),
                                     item |-> ruleJSON, ok |-> FALSE,
                                     cause |-> e])
        /\ returned' = Append(returned, PushError(e))
        /\ logged' = LogReturn(logged, currentLogLevel, PushError(e),
                               Len(received))
        /\ UNCHANGED <<received, lookups, consumed, signalled>>

\* Mutant of TakeSignal: the signal is taken wherever the loop is.
TakeSignal_Preempt ==
    /\ pc \in {"select", "handle", "rpush"}
    /\ sigChan = 1
    /\ sigChan' = 0
    /\ logged' = logInfo(logged, currentLogLevel, "Received signal", 0)
    /\ pc' = "shutdown"
    /\ UNCHANGED <<env, config, currentLogLevel, configFile, rules,
                   subscribed, ch, queue, msg, rule, ruleJSON, err, received,
                   lookups, pushed, returned, consumed, signalled>>

\* Mutant of TakeSignal: the message case has priority, the signal is
\* taken only when no payload is waiting.
TakeSignal_MsgFirst ==
    /\ pc = "select"
    /\ ch = <<>>
    /\ sigChan = 1
    /\ sigChan' = 0
    /\ logged' = logInfo(logged, currentLogLevel, "Received signal", 0)
    /\ pc' = "shutdown"
    /\ UNCHANGED <<env, config, currentLogLevel, configFile, rules,
                   subscribed, ch, queue, msg, rule, ruleJSON, err, received,
                   lookups, pushed, returned, consumed, signalled>>

\* select: case sig := <-sigChan; return
TakeSignal ==
    /\ pc = "select"
    /\ sigChan = 1
    /\ sigChan' = 0
    /\ logged' = logInfo(logged, currentLogLevel, "Received signal", 0)
    /\ pc' = "shutdown"
    /\ UNCHANGED <<env, config, currentLogLevel, configFile, rules,
                   subscribed, ch, queue, msg, rule, ruleJSON, err, received,
                   lookups, pushed, returned, consumed, signalled>>

\* Mutant of RunDefers: pubsub.Close() is not deferred.
RunDefers_NoClose ==
    /\ pc = "shutdown"
    /\ pc' = "stopped"
    /\ UNCHANGED <<env, config, currentLogLevel, configFile, rules,
                   subscribed, ch, sigChan, queue, msg, rule, ruleJSON, err,
                   received, lookups, pushed, returned, logged, consumed, signalled>>

\* main returns: the deferred pubsub.Close() and rdb.Close() run
RunDefers ==
    /\ pc = "shutdown"
    /\ subscribed' = FALSE
    /\ pc' = "stopped"
    /\ UNCHANGED <<env, config, currentLogLevel, configFile, rules, ch,
                   sigChan, queue, msg, rule, ruleJSON, err, received,
                   lookups, pushed, returned, logged, consumed, signalled>>

Next ==
    \/ LoadConfig
    \/ LoadRules
    \/ LoadRulesFatal
    \/ Ping
    \/ PingFatal
    \/ Subscribe
    \/ Publish
    \/ Signal
    \/ RecvMsg
    \/ HandleWebhookMessage
    \/ RPushOk
    \/ RPushFail
    \/ TakeSignal
    \/ RunDefers

Spec == Init /\ [][Next]_vars

\* A pipeline worker takes the item at the head of the queue (LPop), on
\* the queue alone.
ConsumeStep ==
    /\ queue # <<>>
    /\ queue' = Tail(queue)
    /\ UNCHANGED <<pc, env, config, currentLogLevel, configFile, rules,
                   subscribed, ch, sigChan, msg, rule, ruleJSON, err>>

\* A pipeline worker takes the item at the head of the queue (LPop).
Consume ==
    /\ ConsumeStep
    /\ consumed' = Append(consumed, Head(queue))
    /\ UNCHANGED <<received, lookups, pushed, returned, logged, signalled>>

\* The rule files of the liveness specification: no file, a file that is
\* not JSON, the empty rule set and a rule set of one rule.
LiveConfigFiles ==
    {Unreadable, FileOf(NotJSON), FileOf(JArr(<<>>)),
     FileOf(JArr(<<RuleText(RuleMain)>>))}

LiveInit == Init /\ configFile \in LiveConfigFiles

\* The service together with a worker that empties the queue from its head.
QueueNext == Next \/ Consume

\* No file, and rule files under which different payloads put different
\* items on the queue.
QueueConfigFiles ==
    {Unreadable,
     FileOf(JArr(<<RuleText(RuleMain), RuleText(RuleEmpty)>>)),
     FileOf(JArr(<<RuleText(RuleEmpty), RuleText(RuleMainAgain)>>))}

QueueInit == Start /\ env = UnsetEnv /\ configFile \in QueueConfigFiles

QueueSpec == QueueInit /\ [][QueueNext]_vars

\* The environments the configuration is read from: each variable unset or
\* set to a value of its own, LOG_LEVEL to any of the spellings below.
LogLevelStrings ==
    {"", "DEBUG", "INFO", "WARN", "WARNING", "ERROR", "debug", "verbose"}

Envs ==
    {e \in [EnvKeys -> {"", "redis-server", "6380", "custom-channel",
                        "/path/to/config.json", "custom-pipeline"}
                       \cup LogLevelStrings] :
        /\ e["REDIS_HOST"] \in {"", "redis-server"}
        /\ e["REDIS_PORT"] \in {"", "6380"}
        /\ e["REDIS_CHANNEL"] \in {"", "custom-channel"}
        /\ e["CONFIG_FILE_PATH"] \in {"", "/path/to/config.json"}
        /\ e["PIPELINE_QUEUE_NAME"] \in {"", "custom-pipeline"}
        /\ e["LOG_LEVEL"] \in LogLevelStrings}

\* main up to the end of its configuration, under every environment.
ConfigInit == Start /\ env \in Envs /\ configFile = Unreadable

ConfigNext == LoadConfig

ConfigSpec == ConfigInit /\ [][ConfigNext]_vars

\* The service under each log level that can be configured.
LogEnvs ==
    {[UnsetEnv EXCEPT !["LOG_LEVEL"] = l] :
        l \in {"DEBUG", "INFO", "WARN", "ERROR"}}

LogInit == Start /\ env \in LogEnvs /\ configFile \in LiveConfigFiles

LogSpec == LogInit /\ [][Next]_vars

\* The longest the channel's buffer, the dispatch in progress and the
\* queue together may be for the feed to publish one more payload.
MaxBacklog == 2

\* The payloads delivered and not yet taken off the queue by a worker.
Backlog ==
    Len(ch) + Len(queue) + (IF pc \in {"handle", "rpush"} THEN 1 ELSE 0)

\* The channel's publisher, without end: a payload reaches the open
\* subscription whenever the backlog allows.
PublishAny ==
    /\ subscribed
    /\ Backlog < MaxBacklog
    /\ \E p \in Payloads : ch' = Append(ch, p)
    /\ UNCHANGED <<pc, env, config, currentLogLevel, configFile, rules,
                   subscribed, sigChan, queue, msg, rule, ruleJSON, err,
                   received, lookups, pushed, returned, logged, consumed, signalled>>

\* The steps of the loop and of the worker with no history kept, so that
\* they can be repeated for ever.
RecvMsgUntraced ==
    /\ RecvMsgStep
    /\ UNCHANGED <<received, lookups, pushed, returned, logged, consumed, signalled>>

HandleUntraced ==
    /\ HandleStep
    /\ UNCHANGED <<received, lookups, pushed, returned, logged, consumed, signalled>>

RPushOkUntraced ==
    /\ RPushOkStep
    /\ UNCHANGED <<received, lookups, pushed, returned, logged, consumed, signalled>>

RPushFailUntraced ==
    /\ \E e \in RedisErrors : RPushFailStep(e)
    /\ UNCHANGED <<received, lookups, pushed, returned, logged, consumed, signalled>>

ConsumeUntraced ==
    /\ ConsumeStep
    /\ UNCHANGED <<received, lookups, pushed, returned, logged, consumed, signalled>>

StarveNext ==
    \/ LoadConfig
    \/ LoadRules
    \/ LoadRulesFatal
    \/ Ping
    \/ PingFatal
    \/ Subscribe
    \/ PublishAny
    \/ Signal
    \/ RecvMsgUntraced
    \/ HandleUntraced
    \/ RPushOkUntraced
    \/ RPushFailUntraced
    \/ TakeSignal
    \/ RunDefers
    \/ ConsumeUntraced

\* The service fed without end. The process keeps running: a step of main
\* that can be taken is taken, and a select with a ready case proceeds.
\* The select chooses among its ready cases uniformly at random, so a case
\* that is ready at select after select is chosen in the end: strong
\* fairness of the signal case. Nothing is assumed of the publisher, the
\* signal source or the worker.
StarveSpec ==
    /\ LiveInit
    /\ [][StarveNext]_vars
    /\ WF_vars(LoadConfig)
    /\ WF_vars(LoadRules \/ LoadRulesFatal)
    /\ WF_vars(Ping \/ PingFatal)
    /\ WF_vars(Subscribe)
    /\ WF_vars(RecvMsgUntraced \/ TakeSignal)
    /\ SF_vars(TakeSignal)
    /\ WF_vars(HandleUntraced)
    /\ WF_vars(RPushOkUntraced \/ RPushFailUntraced)
    /\ WF_vars(RunDefers)

\* The process keeps running: a step of main that can be taken is taken.
\* Nothing is assumed of the publisher, the signal source or the choice the
\* select makes.
LiveSpec ==
    /\ LiveInit
    /\ [][Next]_vars
    /\ WF_vars(LoadConfig)
    /\ WF_vars(LoadRules \/ LoadRulesFatal)
    /\ WF_vars(Ping \/ PingFatal)
    /\ WF_vars(Subscribe)
    /\ WF_vars(HandleWebhookMessage)
    /\ WF_vars(RPushOk \/ RPushFail)
    /\ WF_vars(RunDefers)

\* The service with a select that proceeds: as LiveSpec, and a select with
\* a ready case takes one. The feed of Spec ends, so no more is needed for
\* a pending signal to be reached.
SignalSpec ==
    /\ LiveInit
    /\ [][Next]_vars
    /\ WF_vars(LoadConfig)
    /\ WF_vars(LoadRules \/ LoadRulesFatal)
    /\ WF_vars(Ping \/ PingFatal)
    /\ WF_vars(Subscribe)
    /\ WF_vars(RecvMsg \/ TakeSignal)
    /\ WF_vars(HandleWebhookMessage)
    /\ WF_vars(RPushOk \/ RPushFail)
    /\ WF_vars(RunDefers)

----------------------------------------------------------------------------
(* Vocabulary of the properties, stated on the texts and the histories     *)
(* without the decoder or the matcher above.                               *)

\* The value of the last member named key, JNull when there is none.
Member(members, key) ==
    LET at == {i \in 1..Len(members) : members[i][1] = key}
    IN IF at = {} THEN JNull
       ELSE members[CHOOSE i \in at : \A j \in at : j <= i][2]

\* The payload's ref and repository.full_name as JSON values.
PayloadRef(p) == IF p.t = "obj" THEN Member(p.m, "ref") ELSE JNull
PayloadRepository(p) ==
    IF p.t = "obj" THEN Member(p.m, "repository") ELSE JNull
PayloadFullName(p) ==
    LET r == PayloadRepository(p)
    IN IF r.t = "obj" THEN Member(r.m, "full_name") ELSE r

\* A field holds the text x: it is that string, or it is absent and x is
\* the empty string.
Holds(v, x) == (v.t = "str" /\ v.s = x) \/ (v.t = "null" /\ x = "")

SyntacticallyValid(p) == p.t # "invalid"

\* The payload has the shape of section 6: an object (or null) whose ref
\* and repository.full_name, where present, are strings.
WellTyped(p) ==
    /\ p.t \in {"obj", "null"}
    /\ PayloadRef(p).t \in {"str", "null"}
    /\ PayloadRepository(p).t \in {"obj", "null"}
    /\ PayloadFullName(p).t \in {"str", "null"}

\* Rule i of rs has the payload's (repository.full_name, ref).
RuleHasPair(rs, i, p) ==
    /\ Holds(PayloadFullName(p), rs[i].Repo)
    /\ Holds(PayloadRef(p), rs[i].Branch)

HasRuleFor(rs, p) == \E i \in 1..Len(rs) : RuleHasPair(rs, i, p)

\* The lowest index of a rule with the payload's pair.
FirstRuleFor(rs, p) ==
    CHOOSE i \in 1..Len(rs) :
        RuleHasPair(rs, i, p) /\ \A j \in 1..(i - 1) : ~RuleHasPair(rs, j, p)

\* The RPush calls made while payload number i was handled.
PushesOf(i) == {k \in 1..Len(pushed) : pushed[k].idx = i}

\* The payloads whose handleWebhookMessage call has returned.
Handled == 1..Len(returned)

\* The queue holds exactly the items of the successful RPush calls, in
\* call order.
RECURSIVE OkItems(_)
OkItems(ps) ==
    IF ps = <<>> THEN <<>>
    ELSE IF Head(ps).ok THEN <<Head(ps).item>> \o OkItems(Tail(ps))
    ELSE OkItems(Tail(ps))

----------------------------------------------------------------------------
(* C1: a syntactically valid payload whose (repository.full_name, ref)     *)
(* matches a rule, handled with a succeeding queue, makes exactly one      *)
(* append, and the appended item deserializes to the repo, branch and      *)
(* commands of the matched rule.                                           *)
C1_MatchedEnqueuedOnce ==
    \A i \in Handled :
        (/\ SyntacticallyValid(received[i])
         /\ HasRuleFor(rules, received[i])
         /\ \A k \in PushesOf(i) : pushed[k].ok)
        => /\ Cardinality(PushesOf(i)) = 1
           /\ returned[i] = NilErr
           /\ \A k \in PushesOf(i) :
                LET want == rules[FirstRuleFor(rules, received[i])]
                    got == UnmarshalRule(pushed[k].item)
                    n == Cardinality({j \in 1..k : pushed[j].ok})
                IN /\ got.err = ""
                   /\ got.rule.Repo = want.Repo
                   /\ got.rule.Branch = want.Branch
                   /\ got.rule.Commands = want.Commands
                   /\ Len(queue) >= n
                   /\ queue[n] = pushed[k].item

\* A matching payload has been handled and its rule, with two commands, is
\* on the queue.
C1_Witness ==
    \E i \in Handled :
        /\ HasRuleFor(rules, received[i])
        /\ \E k \in PushesOf(i) :
              /\ pushed[k].ok
              /\ UnmarshalRule(pushed[k].item).rule.Commands
                    = Slice(<<"make build", "make test">>)
        /\ Len(queue) = 1

----------------------------------------------------------------------------
(* C2 as stated: a syntactically valid payload whose                       *)
(* (repository.full_name, ref) equals no rule's (repo, branch) is handled  *)
(* with no error and no append.                                            *)
C2_AsStated ==
    \A i \in Handled :
        (SyntacticallyValid(received[i]) /\ ~HasRuleFor(rules, received[i]))
        => (returned[i] = NilErr /\ PushesOf(i) = {})

(* C2, amended: a payload that decodes (syntactically valid and of the     *)
(* shape of section 6: an object whose ref and repository.full_name, where *)
(* present, are strings) and whose pair equals no rule's pair is handled   *)
(* with no error and no append, and the queue is as the successful appends *)
(* of the other payloads left it.                                          *)
C2_NoMatchNoAppend ==
    /\ \A i \in Handled :
          (/\ SyntacticallyValid(received[i])
           /\ WellTyped(received[i])
           /\ ~HasRuleFor(rules, received[i]))
          => (returned[i] = NilErr /\ PushesOf(i) = {})
    /\ queue = OkItems(pushed)

\* A decodable payload with one field of a rule, but not the pair, has been
\* handled after an item was appended.
C2_Witness ==
    \E i \in Handled :
        /\ WellTyped(received[i])
        /\ ~HasRuleFor(rules, received[i])
        /\ \E j \in 1..Len(rules) : Holds(PayloadFullName(received[i]), rules[j].Repo)
        /\ i > 1
        /\ Len(queue) = 1

----------------------------------------------------------------------------
(* C3: a payload that is not syntactically valid makes handleWebhookMessage *)
(* return the decode error carrying the parse cause, with no append; the   *)
(* loop is back at its select and handles the next message.                *)
C3_InvalidPayload ==
    /\ [](\A i \in Handled :
            ~SyntacticallyValid(received[i])
            => /\ returned[i].msg = "failed to parse webhook payload"
               /\ returned[i].cause = "SyntaxError"
               /\ PushesOf(i) = {})
    /\ [][(pc = "handle" /\ ~SyntacticallyValid(msg) /\ pc' # pc)
          => (pc' = "select"
              /\ err'.cause = "SyntaxError"
              /\ queue' = queue
              /\ pushed' = pushed
              /\ subscribed')]_vars

\* After a payload that is not JSON the next payload was handled and its
\* rule appended.
C3_Witness ==
    \E i \in Handled :
        /\ ~SyntacticallyValid(received[i])
        /\ i + 1 \in Handled
        /\ returned[i + 1] = NilErr
        /\ PushesOf(i + 1) # {}
        /\ pc = "select"

----------------------------------------------------------------------------
(* C4: when the rule set has a rule with repo A and branch B,              *)
(* findMatchingRule returns the lowest index with that pair, also when     *)
(* later rules have the same pair.                                         *)
C4_FirstMatchWins ==
    \A c \in 1..Len(lookups) :
        LET l == lookups[c]
            at == {i \in 1..Len(rules) :
                      rules[i].Repo = l.repo /\ rules[i].Branch = l.branch}
        IN at # {} => (l.rule \in at /\ \A i \in at : l.rule <= i)

\* A lookup found its rule at index 1 while rule 2 has the same pair and
\* other commands.
C4_Witness ==
    \E c \in 1..Len(lookups) :
        /\ lookups[c].rule = 1
        /\ Len(rules) >= 2
        /\ rules[2].Repo = lookups[c].repo
        /\ rules[2].Branch = lookups[c].branch
        /\ rules[2].Commands # rules[1].Commands

----------------------------------------------------------------------------
(* C5: for a (repo, branch) that is not exactly the pair of any rule,      *)
(* also when one of the two fields is some rule's, findMatchingRule        *)
(* returns nil, and the call is no error.                                  *)
C5_NoMatchIsNil ==
    \A c \in 1..Len(lookups) :
        LET l == lookups[c]
        IN (\A i \in 1..Len(rules) :
                rules[i].Repo # l.repo \/ rules[i].Branch # l.branch)
           => /\ l.rule = 0
              /\ (l.idx \in Handled => returned[l.idx] = NilErr)

\* Lookups returned nil for a pair differing from a rule in the letter case
\* of the repo only, and for one differing in the refs/heads/ prefix only.
C5_Witness ==
    /\ \E c \in 1..Len(lookups) :
          /\ lookups[c].rule = 0
          /\ lookups[c].repo = "O/R"
          /\ \E i \in 1..Len(rules) :
                rules[i].Repo = "o/r" /\ rules[i].Branch = lookups[c].branch
    /\ \E c \in 1..Len(lookups) :
          /\ lookups[c].rule = 0
          /\ lookups[c].branch = "main"
          /\ \E i \in 1..Len(rules) :
                /\ rules[i].Repo = lookups[c].repo
                /\ rules[i].Branch = "refs/heads/main"

----------------------------------------------------------------------------
\* The rules of the payloads handled so far that had a rule and whose
\* handleWebhookMessage call returned nil, in receipt order.
RECURSIVE Forwarded(_)
Forwarded(n) ==
    IF n = 0 THEN <<>>
    ELSE Forwarded(n - 1)
         \o (IF /\ WellTyped(received[n])
                /\ HasRuleFor(rules, received[n])
                /\ returned[n] = NilErr
             THEN <<rules[FirstRuleFor(rules, received[n])]>>
             ELSE <<>>)

(* C6: the items on the queue are the rules of the successfully enqueued   *)
(* payloads in the order in which the payloads were received.              *)
C6_ReceiptOrder ==
    LET want == Forwarded(Len(returned))
    IN /\ Len(queue) = Len(want)
       /\ \A k \in 1..Len(queue) :
             /\ UnmarshalRule(queue[k]).err = ""
             /\ UnmarshalRule(queue[k]).rule = want[k]

\* Two payloads with different rules were enqueued one after the other.
C6_Witness ==
    /\ Len(queue) = 2
    /\ Len(returned) = 2
    /\ UnmarshalRule(queue[1]).rule = RuleMain
    /\ UnmarshalRule(queue[2]).rule = RuleEmpty
    /\ PayloadRef(received[1]) = JStr("refs/heads/main")
    /\ PayloadRef(received[2]) = JNull

----------------------------------------------------------------------------
\* The select loop and the dispatch it runs (the spec's Listening).
Listening == pc \in {"select", "handle", "rpush"}

(* C7: whenever handleWebhookMessage returns, with any outcome, the loop   *)
(* is at its select again with the subscription open; the loop is left     *)
(* only from the select, by taking the signal.                             *)
C7_StaysListening ==
    [][(returned' # returned => (pc' = "select" /\ subscribed'))
       /\ ((Listening /\ ~Listening')
           => (pc = "select" /\ sigChan = 1 /\ sigChan' = 0))]_vars

\* The loop is at its select after a decode failure and an enqueue failure.
C7_Witness ==
    /\ pc = "select"
    /\ Len(returned) = 2
    /\ returned[1].cause = "SyntaxError"
    /\ returned[2].msg = "failed to push to Redis queue"

----------------------------------------------------------------------------
(* C8: a failed RPush makes handleWebhookMessage return an error wrapping  *)
(* the transport cause, leaves the queue as it was, and the loop is back   *)
(* at its select for the following messages.                               *)
C8_EnqueueFailure ==
    /\ [](\A k \in 1..Len(pushed) :
            ~pushed[k].ok
            => /\ pushed[k].idx \in Handled
               /\ returned[pushed[k].idx] # NilErr
               /\ returned[pushed[k].idx].msg = "failed to push to Redis queue"
               /\ returned[pushed[k].idx].cause = pushed[k].cause
               /\ pushed[k].cause \in RedisErrors)
    /\ [][(pushed' # pushed /\ ~pushed'[Len(pushed')].ok)
          => (queue' = queue /\ pc' = "select" /\ err' # NilErr)]_vars

\* The RPush of the first payload failed and the second payload was
\* enqueued.
C8_Witness ==
    /\ Len(pushed) = 2
    /\ ~pushed[1].ok
    /\ pushed[2].ok
    /\ pushed[2].idx = 2
    /\ returned[1].cause = "i/o timeout"
    /\ returned[2] = NilErr
    /\ Len(queue) = 1

----------------------------------------------------------------------------
\* Payload number i decodes and has a rule.
Matched(i) == WellTyped(received[i]) /\ HasRuleFor(rules, received[i])

(* C9 as stated: every received payload that decodes and matches a rule    *)
(* results in an item on the queue; checked once the process has stopped,  *)
(* when nothing more can be appended.                                      *)
C9_AtLeastOnce ==
    pc = "stopped"
    => \A i \in 1..Len(received) :
          Matched(i)
          => \E k \in 1..Len(queue) :
                UnmarshalRule(queue[k]).rule
                    = rules[FirstRuleFor(rules, received[i])]

(* C9, amended: every payload that decodes and matches a rule gets exactly *)
(* one append attempt, which puts one item on the queue when it succeeds   *)
(* and none when it fails; a failed attempt is not repeated.               *)
C9_OneAttempt ==
    /\ \A i \in Handled :
          Matched(i)
          => /\ Cardinality(PushesOf(i)) = 1
             /\ \A k \in PushesOf(i) : pushed[k].ok = (returned[i] = NilErr)
    /\ Len(queue) = Cardinality({i \in Handled : Matched(i) /\ returned[i] = NilErr})

\* The same matching payload was handled twice: its first append failed and
\* left nothing on the queue, its second succeeded.
C9_Witness ==
    /\ Len(returned) = 2
    /\ received[1] = received[2]
    /\ Matched(1)
    /\ returned[1] # NilErr
    /\ returned[2] = NilErr
    /\ Len(queue) = 1

----------------------------------------------------------------------------
(* C10: taking the signal leads to shutdown; from then on no payload is    *)
(* taken, nothing is dispatched or appended, the subscription is closed    *)
(* when the process has stopped, the process does stop, and nothing        *)
(* follows.                                                                *)
C10_Shutdown ==
    /\ [][(sigChan = 1 /\ sigChan' = 0) => pc' = "shutdown"]_vars
    /\ [][(pc \in {"shutdown", "stopped"})
          => (pc' \in {"shutdown", "stopped"}
              /\ received' = received
              /\ lookups' = lookups
              /\ pushed' = pushed
              /\ returned' = returned
              /\ queue' = queue)]_vars
    /\ [][pc = "stopped" => pc' = "stopped"]_vars
    /\ [](pc = "stopped" => ~subscribed)
    /\ (pc = "shutdown" ~> pc = "stopped")

\* The process has stopped with a delivered payload left untaken, after one
\* item was appended.
C10_Witness ==
    /\ pc = "stopped"
    /\ ~subscribed
    /\ ch # <<>>
    /\ Len(queue) = 1

----------------------------------------------------------------------------
(* C11: a shutdown signal that arrives while a payload is being handled    *)
(* leaves the dispatch as it is; the dispatch runs to its return, and the  *)
(* loop is never in shutdown or stopped with a payload taken but not       *)
(* returned, or with a matching payload that got no append attempt.        *)
C11_NoPreemption ==
    /\ [](pc \in {"shutdown", "stopped"}
          => (/\ msg = NoMsg
              /\ rule = 0
              /\ Len(returned) = Len(received)
              /\ \A i \in 1..Len(received) : Matched(i) => PushesOf(i) # {}))
    /\ [][((pc \in {"handle", "rpush"}) /\ sigChan' # sigChan)
          => (pc' = pc /\ msg' = msg /\ rule' = rule /\ ruleJSON' = ruleJSON
              /\ queue' = queue /\ returned' = returned)]_vars
    /\ [][(pc \in {"handle", "rpush"})
          => pc' \in {"handle", "rpush", "select"}]_vars

\* The signal is pending while the matched rule is about to be pushed.
C11_Witness ==
    /\ pc = "rpush"
    /\ sigChan = 1
    /\ msg # NoMsg

----------------------------------------------------------------------------
(* C13: at most one payload is being handled at any time: the loop takes   *)
(* a payload only when handleWebhookMessage has returned for every payload *)
(* taken before it.                                                        *)
C13_OneInFlight ==
    /\ [](/\ Len(received) - Len(returned) \in {0, 1}
          /\ (pc \in {"handle", "rpush"}) <=> (Len(received) = Len(returned) + 1)
          /\ (msg # NoMsg) <=> (pc \in {"handle", "rpush"}))
    /\ [][received' # received
          => (pc = "select" /\ Len(returned) = Len(received))]_vars

\* A second payload waits on the channel while the first is being pushed.
C13_Witness ==
    /\ pc = "rpush"
    /\ ch # <<>>
    /\ Len(received) = 1
    /\ Len(returned) = 0

----------------------------------------------------------------------------
\* Payload p is valid JSON of the expected shape in which ref or
\* repository.full_name is absent (or null), so that it decodes to "".
LacksField(p) ==
    /\ SyntacticallyValid(p)
    /\ WellTyped(p)
    /\ (PayloadRef(p) = JNull \/ PayloadFullName(p) = JNull)

(* C14: whatever the rule set, a syntactically valid payload that lacks    *)
(* ref or repository.full_name decodes without error, matches no rule and  *)
(* makes no append.                                                        *)
C14_MissingFieldNoMatch ==
    \A i \in Handled :
        LacksField(received[i])
        => /\ PushesOf(i) = {}
           /\ \A k \in 1..Len(lookups) :
                 lookups[k].idx = i => lookups[k].rule = 0

----------------------------------------------------------------------------
\* The JSON text it is an object of exactly the five members repo, branch,
\* type, dir and commands, in this order, holding the fields of rule r, the
\* commands one by one in r's order.
IsTextOfRule(it, r) ==
    /\ it.t = "obj"
    /\ Len(it.m) = 5
    /\ it.m[1] = <<"repo", JStr(r.Repo)>>
    /\ it.m[2] = <<"branch", JStr(r.Branch)>>
    /\ it.m[3] = <<"type", JStr(r.Type)>>
    /\ it.m[4] = <<"dir", JStr(r.Dir)>>
    /\ it.m[5][1] = "commands"
    /\ IF r.Commands.nil THEN it.m[5][2] = JNull
       ELSE /\ it.m[5][2].t = "arr"
            /\ Len(it.m[5][2].m) = Len(r.Commands.elems)
            /\ \A j \in 1..Len(r.Commands.elems) :
                  it.m[5][2].m[j] = JStr(r.Commands.elems[j])

(* C17: the item of every append is the serialisation of the rule matched  *)
(* for the payload being handled: an object of the rule's repo, branch,    *)
(* type, dir and commands and of nothing else, the commands in the rule's  *)
(* order; it decodes back to that rule, and a successful append puts this  *)
(* very text on the queue.                                                 *)
C17_ItemIsRule ==
    /\ \A k \in 1..Len(pushed) :
          LET r == rules[FirstRuleFor(rules, received[pushed[k].idx])]
          IN /\ HasRuleFor(rules, received[pushed[k].idx])
             /\ IsTextOfRule(pushed[k].item, r)
             /\ UnmarshalRule(pushed[k].item).err = ""
             /\ UnmarshalRule(pushed[k].item).rule = r
    /\ \A n \in 1..Len(queue) :
          \E k \in 1..Len(pushed) : pushed[k].ok /\ queue[n] = pushed[k].item

\* The rule with dir "app", first of two rules with the same pair, has been
\* matched and its text is on the queue.
C17_Witness ==
    /\ Len(rules) = 2
    /\ rules[2] = RuleMain
    /\ Len(queue) = 1
    /\ queue[1].m[4] = <<"dir", JStr("app")>>
    /\ Len(queue[1].m[5][2].m) = 1

----------------------------------------------------------------------------
(* C18: a successful append puts the serialised rule at the tail of the    *)
(* queue: the queue grows by one, every item that was in it keeps its      *)
(* position and content, and the new item is last; the only other change   *)
(* of the queue is the consumer taking its head, so what the consumer has  *)
(* taken, followed by what is still queued, is the sequence of successful  *)
(* appends in the order they were made.                                    *)
C18_TailAppend ==
    /\ [][queue' # queue
          => ((/\ pc = "rpush"
               /\ Len(queue') = Len(queue) + 1
               /\ \A n \in 1..Len(queue) : queue'[n] = queue[n]
               /\ queue'[Len(queue')] = ruleJSON
               /\ consumed' = consumed)
              \/ (/\ queue # <<>>
                  /\ queue' = Tail(queue)
                  /\ consumed' = Append(consumed, Head(queue))))]_vars
    /\ [](consumed \o queue = OkItems(pushed))

\* The consumer has taken the item of the first payload while the
\* different item of the second payload is queued behind it.
C18_Witness ==
    /\ Len(consumed) = 1
    /\ Len(queue) = 1
    /\ consumed[1] # queue[1]
    /\ consumed[1] = pushed[1].item
    /\ queue[1] = pushed[2].item

----------------------------------------------------------------------------
(* C19: once loaded, the rule set never changes: no step after start-up    *)
(* alters rules, which stays what loadFilterRules read from the file, and  *)
(* every lookup made so far gave the rule that the same (repo, branch)     *)
(* lookup gives now.                                                       *)
C19_RulesImmutable ==
    /\ [][(pc \notin {"start", "loadRules"}) => rules' = rules]_vars
    /\ [](pc \in {"ping", "subscribe", "select", "handle", "rpush",
                  "shutdown", "stopped"}
          => rules = loadFilterRules(configFile).rules)
    /\ [](\A k \in 1..Len(lookups) :
             lookups[k].rule
                = findMatchingRule(rules, lookups[k].repo, lookups[k].branch))
    /\ [](\A k \in 1..Len(pushed) :
             UnmarshalRule(pushed[k].item).rule
                = rules[findMatchingRule(rules,
                                         UnmarshalRule(pushed[k].item).rule.Repo,
                                         UnmarshalRule(pushed[k].item).rule.Branch)])

\* The same pair was looked up twice in a set of two rules and gave the
\* same rule, whose text was appended both times.
C19_Witness ==
    /\ Len(rules) = 2
    /\ Len(lookups) = 2
    /\ lookups[1].rule # 0
    /\ lookups[1].repo = lookups[2].repo
    /\ lookups[1].branch = lookups[2].branch
    /\ lookups[1].rule = lookups[2].rule
    /\ Len(queue) = 2

----------------------------------------------------------------------------
(* C20: with REDIS_CHANNEL unset loadConfig yields the channel             *)
(* "github-webhooks"; the other unset defaults are host "localhost", port  *)
(* "6379", rule file "config.json", queue "pipeline" and level "INFO"; a   *)
(* variable set to a non-empty value is returned as set.                   *)
C20_Defaults ==
    pc # "start"
    => /\ config.RedisChannel
            = (IF env["REDIS_CHANNEL"] = "" THEN "github-webhooks"
               ELSE env["REDIS_CHANNEL"])
       /\ config.RedisHost
            = (IF env["REDIS_HOST"] = "" THEN "localhost"
               ELSE env["REDIS_HOST"])
       /\ config.RedisPort
            = (IF env["REDIS_PORT"] = "" THEN "6379" ELSE env["REDIS_PORT"])
       /\ config.ConfigFilePath
            = (IF env["CONFIG_FILE_PATH"] = "" THEN "config.json"
               ELSE env["CONFIG_FILE_PATH"])
       /\ config.PipelineQueueName
            = (IF env["PIPELINE_QUEUE_NAME"] = "" THEN "pipeline"
               ELSE env["PIPELINE_QUEUE_NAME"])
       /\ config.LogLevel
            = (IF env["LOG_LEVEL"] = "" THEN "INFO" ELSE env["LOG_LEVEL"])

----------------------------------------------------------------------------
\* Payload number i decoded and no rule has its pair.
NoMatch(i) == WellTyped(received[i]) /\ ~HasRuleFor(rules, received[i])

\* Payload number i matched a rule and its item was appended.
Enqueued(i) == \E k \in PushesOf(i) : pushed[k].ok

\* An entry of this level and text was written while payload i was handled.
Logged(lvl, text, i) ==
    \E k \in 1..Len(logged) :
        logged[k] = [level |-> lvl, text |-> text, idx |-> i]

(* C15 as stated: the result handleWebhookMessage returns for a payload    *)
(* that matched no rule differs from the result it returns for a payload   *)
(* whose rule was appended.                                                *)
C15_AsStated ==
    \A i, j \in Handled :
        (NoMatch(i) /\ Enqueued(j)) => returned[i] # returned[j]

(* C15, amended: handleWebhookMessage returns the same nil for a payload   *)
(* that matched no rule and for one whose rule was appended; the outcomes  *)
(* differ in the append (none against one) and, when the level is DEBUG,   *)
(* in the entries handleWebhookMessage writes: "No matching rule found"    *)
(* for the first only, "Found matching rule" and "Pushed rule to queue"    *)
(* for the second only; at any higher level neither writes an entry.       *)
C15_SameResult ==
    \A i \in Handled :
        /\ NoMatch(i)
           => /\ returned[i] = NilErr
              /\ PushesOf(i) = {}
              /\ Logged("DEBUG", "No matching rule found", i)
                    <=> (currentLogLevel = LogLevelDebug)
              /\ ~Logged("DEBUG", "Found matching rule", i)
              /\ ~Logged("DEBUG", "Pushed rule to queue", i)
        /\ Enqueued(i)
           => /\ returned[i] = NilErr
              /\ Cardinality(PushesOf(i)) = 1
              /\ Logged("DEBUG", "Found matching rule", i)
                    <=> (currentLogLevel = LogLevelDebug)
              /\ Logged("DEBUG", "Pushed rule to queue", i)
                    <=> (currentLogLevel = LogLevelDebug)
              /\ ~Logged("DEBUG", "No matching rule found", i)
        /\ (NoMatch(i) \/ Enqueued(i))
           => \A k \in 1..Len(logged) :
                 logged[k].idx = i => logged[k].level = "DEBUG"

\* At level DEBUG a payload without a rule and a payload with a rule have
\* both been handled, the second one's rule appended.
C15_Witness ==
    /\ currentLogLevel = LogLevelDebug
    /\ Len(returned) = 2
    /\ NoMatch(1)
    /\ Enqueued(2)
    /\ returned[1] = returned[2]

----------------------------------------------------------------------------
(* C16 as stated: at every configured level, every handled payload, what-  *)
(* ever its outcome, has at least one emitted log entry.                   *)
C16_AsStated ==
    \A i \in Handled : \E k \in 1..Len(logged) : logged[k].idx = i

(* C16, amended: a payload whose handling failed (decode or append error)  *)
(* has an ERROR entry at every configured level; a payload handled without *)
(* error, matched or not, has log entries exactly when the level is DEBUG, *)
(* and leaves no entry at INFO, WARN and ERROR.                            *)
C16_LoggedOutcomes ==
    \A i \in Handled :
        /\ returned[i] # NilErr
           => Logged("ERROR", "Error handling webhook message", i)
        /\ returned[i] = NilErr
           => /\ ~Logged("ERROR", "Error handling webhook message", i)
              /\ (\E k \in 1..Len(logged) : logged[k].idx = i)
                    <=> (currentLogLevel = LogLevelDebug)
              /\ currentLogLevel = LogLevelDebug
                 => (\/ Logged("DEBUG", "No matching rule found", i)
                     \/ Logged("DEBUG", "Pushed rule to queue", i))

\* At level ERROR a payload was handled with an error and another without:
\* the log holds the one entry of the first.
C16_Witness ==
    /\ currentLogLevel = LogLevelError
    /\ Len(returned) = 2
    /\ returned[1] # NilErr
    /\ returned[2] = NilErr
    /\ logged = <<[level |-> "ERROR",
                   text |-> "Error handling webhook message", idx |-> 1]>>

----------------------------------------------------------------------------
(* C12: a signal held in sigChan stays there until the loop takes it, and  *)
(* the loop does take it and the process stops, however many payloads      *)
(* arrive meanwhile, for ever if the publisher so chooses.                 *)
C12_ShutdownNotStarved ==
    /\ [][(sigChan = 1 /\ sigChan' # 1) => (pc = "select" /\ pc' = "shutdown")]_vars
    /\ (sigChan = 1) ~> (pc = "stopped")

\* The signal is pending while a payload is handled and another waits on
\* the channel.
C12_Witness ==
    /\ sigChan = 1
    /\ pc = "handle"
    /\ ch # <<>>

----------------------------------------------------------------------------
(* C21: loadFilterRules gives an error and no rules for a file that cannot *)
(* be read or is not valid JSON, and for a file listing rules it gives     *)
(* these rules, in the file's order and with their fields, and no error.   *)
(* When it gives an error main ends at once: the process never subscribes, *)
(* receives, looks up or appends anything, and stays ended.                *)
C21_LoadFailureFatal ==
    /\ []((~configFile.readable \/ configFile.text = NotJSON)
          => (/\ loadFilterRules(configFile).err # NilErr
              /\ loadFilterRules(configFile).rules = <<>>))
    /\ [](\A rs \in RuleSets :
             configFile = FileOf(JArr([i \in 1..Len(rs) |-> RuleText(rs[i])]))
             => (/\ loadFilterRules(configFile) = [rules |-> rs, err |-> NilErr]
                 /\ pc \notin {"start", "loadRules"}
                    => (rules = rs /\ ~Logged("FATAL", "Failed to load filter rules", 0))))
    /\ [](loadFilterRules(configFile).err # NilErr
          => (/\ pc \in {"start", "loadRules", "fatal"}
              /\ ~subscribed
              /\ rules = <<>>
              /\ ch = <<>>
              /\ received = <<>>
              /\ lookups = <<>>
              /\ pushed = <<>>
              /\ queue = <<>>))
    /\ [][(pc = "loadRules" /\ loadFilterRules(configFile).err # NilErr)
          => (pc' = "fatal"
              /\ logged' = Append(logged, [level |-> "FATAL",
                                           text |-> "Failed to load filter rules",
                                           idx |-> 0]))]_vars
    /\ [][pc = "fatal" => pc' = "fatal"]_vars

\* The process has ended on a rule file that is not JSON, its last entry
\* the fatal one.
C21_Witness ==
    /\ pc = "fatal"
    /\ configFile = FileOf(NotJSON)
    /\ logged[Len(logged)] = [level |-> "FATAL",
                              text |-> "Failed to load filter rules",
                              idx |-> 0]
    /\ ~subscribed

----------------------------------------------------------------------------
\* The four levels.
LogLevels == {LogLevelDebug, LogLevelInfo, LogLevelWarn, LogLevelError}

(* C22: parseLogLevel gives DEBUG, INFO, WARN and ERROR their levels,      *)
(* WARNING the level of WARN, and every other string, the empty one        *)
(* included, the level INFO; its result is one of the four levels, which   *)
(* are distinct; and currentLogLevel is its result for the configured      *)
(* LOG_LEVEL once main has read the configuration.                         *)
C22_ParseLogLevel ==
    /\ parseLogLevel("DEBUG") = LogLevelDebug
    /\ parseLogLevel("INFO") = LogLevelInfo
    /\ parseLogLevel("WARN") = LogLevelWarn
    /\ parseLogLevel("WARNING") = LogLevelWarn
    /\ parseLogLevel("ERROR") = LogLevelError
    /\ \A s \in LogLevelStrings \cup {"invalid"} :
          /\ parseLogLevel(s) \in LogLevels
          /\ s \notin {"DEBUG", "INFO", "WARN", "WARNING", "ERROR"}
             => parseLogLevel(s) = LogLevelInfo
    /\ Cardinality(LogLevels) = 4
    /\ currentLogLevel \in LogLevels
    /\ pc # "start"
       => /\ currentLogLevel = parseLogLevel(config.LogLevel)
          /\ env["LOG_LEVEL"] = "DEBUG" <=> currentLogLevel = LogLevelDebug
          /\ env["LOG_LEVEL"] \in {"WARN", "WARNING"}
                <=> currentLogLevel = LogLevelWarn
          /\ env["LOG_LEVEL"] = "ERROR" <=> currentLogLevel = LogLevelError
          /\ env["LOG_LEVEL"] \in {"", "INFO", "debug", "verbose"}
                <=> currentLogLevel = LogLevelInfo

\* main has read a configuration whose LOG_LEVEL is the lower-case "debug"
\* and runs at level INFO.
C22_Witness ==
    /\ pc = "loadRules"
    /\ config.LogLevel = "debug"
    /\ currentLogLevel = LogLevelInfo

----------------------------------------------------------------------------
\* The lookups made while payload number i was handled.
LookupsOf(i) == {k \in 1..Len(lookups) : lookups[k].idx = i}

(* C23: every payload taken from the channel is removed from it, handled   *)
(* once and returned once: it gets at most one lookup and at most one      *)
(* append attempt, made while it is the payload in hand; nothing is put    *)
(* back on the channel, a failed append is not repeated, and the attempts  *)
(* never outnumber the payloads received.                                  *)
C23_ExactlyOnce ==
    /\ [](/\ Len(pushed) <= Len(received)
          /\ Len(lookups) <= Len(received)
          /\ Len(returned) <= Len(received)
          /\ \A i \in 1..Len(received) :
                /\ Cardinality(PushesOf(i)) <= 1
                /\ Cardinality(LookupsOf(i)) <= 1
          /\ \A k \in 1..Len(pushed) :
                /\ pushed[k].idx \in 1..Len(received)
                /\ \A j \in 1..(k - 1) : pushed[j].idx < pushed[k].idx
          /\ \A i \in Handled :
                /\ Cardinality(LookupsOf(i))
                      = (IF WellTyped(received[i]) THEN 1 ELSE 0)
                /\ returned[i] # NilErr
                   => \A k \in PushesOf(i) : ~pushed[k].ok)
    /\ [][received' # received
          => (/\ ch # <<>>
              /\ received' = Append(received, Head(ch))
              /\ ch' = Tail(ch)
              /\ msg' = Head(ch))]_vars
    /\ [][ch' # ch
          => ((ch # <<>> /\ ch' = Tail(ch))
              \/ (Len(ch') = Len(ch) + 1 /\ SubSeq(ch', 1, Len(ch)) = ch
                  /\ received' = received /\ msg' = msg))]_vars
    /\ [][pushed' # pushed
          => (/\ pc = "rpush"
              /\ Len(pushed') = Len(pushed) + 1
              /\ pushed'[Len(pushed')].idx = Len(received)
              /\ Len(returned') = Len(received))]_vars
    /\ [][returned' # returned
          => (Len(returned') = Len(returned) + 1 /\ msg' = NoMsg)]_vars

\* The first payload's one append failed, the second payload matched no
\* rule; both were returned and the loop waits with nothing to take.
C23_Witness ==
    /\ Len(returned) = 2
    /\ Len(pushed) = 1
    /\ ~pushed[1].ok
    /\ pushed[1].idx = 1
    /\ NoMatch(2)
    /\ pc = "select"
    /\ ch = <<>>
    /\ queue = <<>>

----------------------------------------------------------------------------
\* The positions main passes through before the loop.
StartingUp == {"start", "loadRules", "ping", "subscribe"}

\* The texts of the log entries, in order.
LoggedTexts == [k \in 1..Len(logged) |-> logged[k].text]

(* C24: main moves from reading the configuration to loading the rules, to *)
(* testing the connection, to subscribing, and only then into the loop;    *)
(* no position is skipped or revisited. The channel is subscribed only in  *)
(* the loop; a failed connection test ends the process unsubscribed; and   *)
(* before the loop is entered nothing is delivered, received or appended.  *)
C24_StartupOrder ==
    /\ [][pc' # pc
          => (<<pc, pc'>> \in {<<"start", "loadRules">>,
                               <<"loadRules", "ping">>,
                               <<"loadRules", "fatal">>,
                               <<"ping", "subscribe">>,
                               <<"ping", "fatal">>,
                               <<"subscribe", "select">>,
                               <<"select", "handle">>,
                               <<"select", "shutdown">>,
                               <<"handle", "rpush">>,
                               <<"handle", "select">>,
                               <<"rpush", "select">>,
                               <<"shutdown", "stopped">>})]_vars
    /\ [](pc \in StartingUp \cup {"fatal"}
          => (/\ ~subscribed
              /\ ch = <<>>
              /\ sigChan = 0
              /\ received = <<>>
              /\ lookups = <<>>
              /\ pushed = <<>>
              /\ queue = <<>>))
    /\ [](pc \in {"ping", "subscribe"} \cup {"select", "handle", "rpush"}
          => (/\ loadFilterRules(configFile).err = NilErr
              /\ rules = loadFilterRules(configFile).rules))
    /\ [](subscribed => pc \in {"select", "handle", "rpush", "shutdown"})
    /\ [](pc \in {"select", "handle", "rpush"}
          => (/\ Len(logged) >= 6
              /\ SubSeq(LoggedTexts, 1, 6)
                    = <<"Starting GitHub Dispatcher Service...",
                        "Configuration",
                        "Loaded filter rule(s)",
                        "Successfully connected to Redis",
                        "Subscribed to channel",
                        "Waiting for messages...">>))
    /\ [][(pc = "ping" /\ pc' = "fatal")
          => (/\ ~subscribed'
              /\ logged' = Append(logged, [level |-> "FATAL",
                                           text |-> "Failed to connect to Redis",
                                           idx |-> 0]))]_vars
    /\ [][queue' # queue => pc = "rpush"]_vars

\* The rules were loaded and the connection test then failed: the process
\* has ended without a subscription.
C24_Witness ==
    /\ pc = "fatal"
    /\ Len(rules) = 2
    /\ ~subscribed
    /\ LoggedTexts = <<"Starting GitHub Dispatcher Service...",
                       "Configuration",
                       "Loaded filter rule(s)",
                       "Failed to connect to Redis">>

----------------------------------------------------------------------------
(* C25: sigChan holds at most one signal; a signal sent while a payload is *)
(* being handled is in sigChan afterwards and stays there while the        *)
(* dispatch goes on; every signal sent is either still held or has been    *)
(* taken by the loop, which then shuts down; and once a signal has been    *)
(* sent during a dispatch the loop does take it and the process stops.     *)
C25_SignalNotLost ==
    /\ [](sigChan \in {0, 1})
    /\ [](signalled => (sigChan = 1 \/ pc \in {"shutdown", "stopped"}))
    /\ [][((pc \in {"handle", "rpush"}) /\ ~signalled /\ signalled')
          => (sigChan' = 1 /\ pc' = pc)]_vars
    /\ [][((pc \in {"handle", "rpush"}) /\ sigChan = 1) => sigChan' = 1]_vars
    /\ [][(sigChan = 1 /\ sigChan' = 0)
          => (pc = "select" /\ pc' = "shutdown")]_vars
    /\ ((pc \in {"handle", "rpush"}) /\ signalled) ~> (pc = "stopped")

\* A signal has been sent and is held while the second payload is being
\* handled.
C25_Witness ==
    /\ pc = "handle"
    /\ signalled
    /\ sigChan = 1
    /\ Len(received) = 2
    /\ Len(returned) = 1

----------------------------------------------------------------------------
\* What the append attempts for payload number i came to: success or the
\* store's error.
AppendResults(i) == {<<pushed[k].ok, pushed[k].cause>> : k \in PushesOf(i)}

\* The rules the lookups for payload number i gave.
LookupResults(i) == {lookups[k].rule : k \in LookupsOf(i)}

\* The items of the append attempts for payload number i.
ItemsOf(i) == {pushed[k].item : k \in PushesOf(i)}

(* C26: handling keeps no memory of earlier payloads. Two payloads with    *)
(* the same text get the same lookup result and the same item, and, when   *)
(* their appends fare alike, the same returned value; what is returned and *)
(* attempted for a payload is what handleWebhookMessage computes from the  *)
(* rule set and that payload alone; and a matching payload appended k      *)
(* times stands k times on the queue, which holds one item per successful  *)
(* append.                                                                 *)
C26_NoHistory ==
    /\ \A i, j \in Handled :
          received[i] = received[j]
          => /\ LookupResults(i) = LookupResults(j)
             /\ ItemsOf(i) = ItemsOf(j)
             /\ Cardinality(PushesOf(i)) = Cardinality(PushesOf(j))
             /\ AppendResults(i) = AppendResults(j)
                => returned[i] = returned[j]
    /\ \A i \in Handled :
          LET d == Dispatch(rules, received[i])
          IN IF d.push
             THEN /\ ItemsOf(i) = {d.ruleJSON}
                  /\ Cardinality(PushesOf(i)) = 1
                  /\ Enqueued(i) <=> returned[i] = NilErr
             ELSE /\ PushesOf(i) = {}
                  /\ returned[i] = d.err
    /\ \A i \in Handled :
          Enqueued(i)
          => Cardinality({n \in 1..Len(queue) : {queue[n]} = ItemsOf(i)})
                = Cardinality({j \in Handled :
                                  Enqueued(j) /\ ItemsOf(j) = ItemsOf(i)})
    /\ Len(queue) = Cardinality({i \in Handled : Enqueued(i)})

\* The same matching payload was received twice and the queue holds its
\* item twice.
C26_Witness ==
    /\ Len(returned) = 2
    /\ received[1] = received[2]
    /\ Enqueued(1)
    /\ Enqueued(2)
    /\ Len(queue) = 2
    /\ queue[1] = queue[2]
    /\ queue[1] = MarshalRule(RuleMain)

----------------------------------------------------------------------------
\* The entries of this level and text written while payload i was handled.
EntriesOf(lvl, text, i) ==
    {k \in 1..Len(logged) :
        logged[k] = [level |-> lvl, text |-> text, idx |-> i]}

(* C27: at each of the four levels, every payload whose handling returned  *)
(* an error has exactly one ERROR entry, written by the loop in the step   *)
(* in which the error is returned, and a payload handled without error has *)
(* none: no level suppresses error entries. DEBUG entries exist only when  *)
(* the level is DEBUG, and then every received payload has its receipt     *)
(* entry.                                                                  *)
C27_ErrorsAlwaysLogged ==
    /\ [](\A lvl \in LogLevels :
             /\ Enabled(lvl, LogLevelError)
             /\ Enabled(lvl, LogLevelDebug) <=> (lvl = LogLevelDebug))
    /\ [](\A i \in Handled :
             Cardinality(EntriesOf("ERROR", "Error handling webhook message", i))
                = (IF returned[i] # NilErr THEN 1 ELSE 0))
    /\ [](\A k \in 1..Len(logged) :
             /\ logged[k].level = "DEBUG" => currentLogLevel = LogLevelDebug
             /\ logged[k].level = "ERROR"
                => (logged[k].idx \in Handled /\ returned[logged[k].idx] # NilErr))
    /\ [](currentLogLevel = LogLevelDebug
          => \A i \in 1..Len(received) :
                Logged("DEBUG", "Received message from channel", i))
    /\ [][(Len(returned') = Len(returned) + 1
           /\ returned'[Len(returned')] # NilErr)
          => (/\ Len(logged') = Len(logged) + 1
              /\ logged'[Len(logged')]
                    = [level |-> "ERROR",
                       text |-> "Error handling webhook message",
                       idx |-> Len(received)])]_vars

\* At level WARN an append failed on a timeout: the log's last entry is the
\* error entry of that payload, and no debug entry was written.
C27_Witness ==
    /\ currentLogLevel = LogLevelWarn
    /\ Len(returned) = 1
    /\ returned[1].cause = "i/o timeout"
    /\ logged[Len(logged)] = [level |-> "ERROR",
                              text |-> "Error handling webhook message",
                              idx |-> 1]
    /\ \A k \in 1..Len(logged) : logged[k].level # "DEBUG"

====
